---- MODULE Spec2Model ----
(***************************************************************************)
(* The data schema of the stock tracker (src/app/models.py): seven         *)
(* persisted tables and the request shapes of the API, with the            *)
(* constraints each field declares.                                        *)
(*                                                                         *)
(* The file declares data and no handlers.  The operations below are the   *)
(* ones the declarations give a meaning to:                                *)
(*   - validating a request against a shape (table=False classes): every   *)
(*     declared field constraint is checked;                               *)
(*   - storing a row of a table (table=True classes): the table layout     *)
(*     (NOT NULL, VARCHAR(n), ENUM, NUMERIC scale, UNIQUE, FOREIGN KEY)    *)
(*     is what the database holds a row to;                                *)
(*   - creating a row from a create shape and applying an update shape to  *)
(*     a stored row: the fields the shape carries are written to the row.  *)
(* A row of a table class is built either through validation               *)
(* (model_validate) or by plain construction, which does not run the       *)
(* field validators of a table class; the caller is not part of the file,  *)
(* so both are possible (the parameter `validated`).                       *)
(*                                                                         *)
(* The engine and the handlers are not part of the file: the model takes   *)
(* a database that enforces the declared layout.                           *)
(*                                                                         *)
(* A record of data carries a field only when it has a value: a field      *)
(* that is None (or NULL in a stored row) is absent from the record.       *)
(* Rows carry every declared column except the datetime ones.              *)
(***************************************************************************)
EXTENDS Integers, Sequences, FiniteSets, TLC

\* db: the seven tables, each the sequence of its rows (a row's id is its
\* place in the sequence).  last: the latest operation, its input and the
\* errors it ended with (none when it was accepted).
VARIABLES db, last

vars == <<db, last>>

(* ------------------------------ bounds -------------------------------- *)

\* Rows a table holds; an operation that stores a row is tried while there
\* is room for one.
MaxRows == 2

\* Rows the whole database holds.
MaxTotal == 3

\* Largest number of fractional digits of a decimal input.
MaxPlaces == 7

(* ------------------------------ values -------------------------------- *)

\* A str is a sequence of one-character strings.
RECURSIVE Rep(_, _)
Rep(c, n) == IF n = 0 THEN <<>> ELSE <<c>> \o Rep(c, n - 1)

\* A Decimal is coef * 10^(-exp).
Dec(c, e) == [coef |-> c, exp |-> e]

RECURSIVE Pow10(_)
Pow10(n) == IF n = 0 THEN 1 ELSE 10 * Pow10(n - 1)

\* The number of fractional digits of a Decimal, trailing zeros apart.
\* A Decimal without its trailing zeros.
RECURSIVE Normalize(_)
Normalize(d) ==
    IF d.exp > 0 /\ d.coef % 10 = 0 THEN Normalize(Dec(d.coef \div 10, d.exp - 1))
    ELSE d

\* Equality of the numbers two Decimals stand for.
NumEq(a, b) == Normalize(a) = Normalize(b)

(* ------------------------------- enums -------------------------------- *)

TransactionType == {"BUY", "SELL"}

AlertType == {"ABOVE", "BELOW"}

\* Variant: a fourth member.
AlertStatusWithPaused == {"ACTIVE", "TRIGGERED", "DISABLED", "PAUSED"}

AlertStatus == {"ACTIVE", "TRIGGERED", "DISABLED"}

EnumMembers(ty) ==
    CASE ty = "TransactionType" -> TransactionType
      [] ty = "AlertType" -> AlertType
      [] ty = "AlertStatus" -> AlertStatus

IsEnumType(ty) == ty \in {"TransactionType", "AlertType", "AlertStatus"}

(* ------------------------- field declarations ------------------------- *)

\* The pattern of User.email.
EmailRegex == "^[a-zA-Z0-9_.+-]+@[a-zA-Z0-9-]+\\.[a-zA-Z0-9-.]+$"

\* A field declared as `name: ty` with no Field() options: required, not
\* nullable, unconstrained.
Fld(ty) ==
    [type |-> ty, required |-> TRUE, nullable |-> FALSE, default |-> {},
     max_length |-> {}, decimal_places |-> {}, regex |-> {},
     unique |-> FALSE, foreign_key |-> {}, primary_key |-> FALSE]

\* `name: ty = Field(default=d)`.
Dflt(ty, d) == [Fld(ty) EXCEPT !.required = FALSE, !.default = {d}]

\* `name: Optional[ty] = Field(default=None)`.
Opt(ty) == [Fld(ty) EXCEPT !.required = FALSE, !.nullable = TRUE]

\* `name: datetime = Field(default_factory=datetime.utcnow)`.
Stamp == [Fld("datetime") EXCEPT !.required = FALSE]

\* `id: Optional[int] = Field(default=None, primary_key=True)`.
PrimaryKey == [Opt("int") EXCEPT !.primary_key = TRUE]

MaxLen(fd, n) == [fd EXCEPT !.max_length = {n}]

Places(fd, n) == [fd EXCEPT !.decimal_places = {n}]

Regex(fd, r) == [fd EXCEPT !.regex = {r}]

Unique(fd) == [fd EXCEPT !.unique = TRUE]

ForeignKey(fd, t) == [fd EXCEPT !.foreign_key = {t}]

Zero == Dec(0, 0)

(* --------------------------- persisted tables -------------------------- *)

UserUsername == Unique(MaxLen(Fld("str"), 50))

\* Variant: the email column without its unique constraint.
UserEmailNotUnique == Regex(MaxLen(Fld("str"), 255), EmailRegex)

UserEmail == Unique(Regex(MaxLen(Fld("str"), 255), EmailRegex))

User ==
    [id |-> PrimaryKey,
     username |-> UserUsername,
     email |-> UserEmail,
     full_name |-> MaxLen(Fld("str"), 100),
     is_active |-> Dflt("bool", TRUE),
     created_at |-> Stamp,
     updated_at |-> Stamp]

StockSymbol == Unique(MaxLen(Fld("str"), 10))

Stock ==
    [id |-> PrimaryKey,
     symbol |-> StockSymbol,
     name |-> MaxLen(Fld("str"), 200),
     exchange |-> MaxLen(Fld("str"), 50),
     sector |-> MaxLen(Opt("str"), 100),
     market_cap |-> Places(Opt("Decimal"), 2),
     current_price |-> Places(Fld("Decimal"), 4),
     previous_close |-> Places(Fld("Decimal"), 4),
     day_change |-> Places(Fld("Decimal"), 4),
     day_change_percent |-> Places(Fld("Decimal"), 4),
     volume |-> Dflt("int", 0),
     last_updated |-> Stamp,
     is_active |-> Dflt("bool", TRUE),
     created_at |-> Stamp,
     market_data |-> Dflt("json", <<>>)]

\* Variant: user_id declared as a plain integer column.
HoldingUserIdNoKey == Fld("int")

HoldingUserId == ForeignKey(Fld("int"), "users")

HoldingStockId == ForeignKey(Fld("int"), "stocks")

PortfolioHolding ==
    [id |-> PrimaryKey,
     user_id |-> HoldingUserId,
     stock_id |-> HoldingStockId,
     quantity |-> Places(Fld("Decimal"), 6),
     average_cost |-> Places(Fld("Decimal"), 4),
     total_invested |-> Places(Fld("Decimal"), 2),
     current_value |-> Places(Dflt("Decimal", Zero), 2),
     unrealized_gain_loss |-> Places(Dflt("Decimal", Zero), 2),
     unrealized_gain_loss_percent |-> Places(Dflt("Decimal", Zero), 4),
     created_at |-> Stamp,
     updated_at |-> Stamp]

TransactionKind == Fld("TransactionType")

\* Variant: quantity declared without decimal_places.
TransactionQuantityUnscaled == Fld("Decimal")

TransactionQuantity == Places(Fld("Decimal"), 6)

Transaction ==
    [id |-> PrimaryKey,
     user_id |-> ForeignKey(Fld("int"), "users"),
     stock_id |-> ForeignKey(Fld("int"), "stocks"),
     transaction_type |-> TransactionKind,
     quantity |-> TransactionQuantity,
     price |-> Places(Fld("Decimal"), 4),
     total_amount |-> Places(Fld("Decimal"), 2),
     fees |-> Places(Dflt("Decimal", Zero), 2),
     notes |-> MaxLen(Opt("str"), 500),
     transaction_date |-> Stamp,
     created_at |-> Stamp]

\* Variant: another default.
PriceAlertStatusTriggered == Dflt("AlertStatus", "TRIGGERED")

PriceAlertStatus == Dflt("AlertStatus", "ACTIVE")

PriceAlert ==
    [id |-> PrimaryKey,
     user_id |-> ForeignKey(Fld("int"), "users"),
     stock_id |-> ForeignKey(Fld("int"), "stocks"),
     alert_type |-> Fld("AlertType"),
     target_price |-> Places(Fld("Decimal"), 4),
     status |-> PriceAlertStatus,
     message |-> MaxLen(Opt("str"), 200),
     triggered_at |-> Opt("datetime"),
     created_at |-> Stamp,
     updated_at |-> Stamp]

StockPriceHistory ==
    [id |-> PrimaryKey,
     stock_id |-> ForeignKey(Fld("int"), "stocks"),
     price |-> Places(Fld("Decimal"), 4),
     volume |-> Dflt("int", 0),
     timestamp |-> Stamp,
     open_price |-> Places(Opt("Decimal"), 4),
     high_price |-> Places(Opt("Decimal"), 4),
     low_price |-> Places(Opt("Decimal"), 4),
     close_price |-> Places(Opt("Decimal"), 4)]

\* Variant: user_id without unique=True.
SummaryUserIdNotUnique == ForeignKey(Fld("int"), "users")

SummaryUserId == Unique(ForeignKey(Fld("int"), "users"))

PortfolioSummary ==
    [id |-> PrimaryKey,
     user_id |-> SummaryUserId,
     total_value |-> Places(Dflt("Decimal", Zero), 2),
     total_invested |-> Places(Dflt("Decimal", Zero), 2),
     total_gain_loss |-> Places(Dflt("Decimal", Zero), 2),
     total_gain_loss_percent |-> Places(Dflt("Decimal", Zero), 4),
     day_change |-> Places(Dflt("Decimal", Zero), 2),
     day_change_percent |-> Places(Dflt("Decimal", Zero), 4),
     number_of_holdings |-> Dflt("int", 0),
     last_updated |-> Stamp]

(* --------------------------- request shapes ---------------------------- *)

\* Variant: a longer limit than the one of User.username.
UserCreateUsernameLonger == MaxLen(Fld("str"), 60)

UserCreateUsername == MaxLen(Fld("str"), 50)

UserCreate ==
    [username |-> UserCreateUsername,
     email |-> MaxLen(Fld("str"), 255),
     full_name |-> MaxLen(Fld("str"), 100)]

UserUpdate ==
    [username |-> MaxLen(Opt("str"), 50),
     email |-> MaxLen(Opt("str"), 255),
     full_name |-> MaxLen(Opt("str"), 100),
     is_active |-> Opt("bool")]

StockCreate ==
    [symbol |-> MaxLen(Fld("str"), 10),
     name |-> MaxLen(Fld("str"), 200),
     exchange |-> MaxLen(Fld("str"), 50),
     sector |-> MaxLen(Opt("str"), 100),
     current_price |-> Places(Fld("Decimal"), 4)]

StockUpdate ==
    [name |-> MaxLen(Opt("str"), 200),
     exchange |-> MaxLen(Opt("str"), 50),
     sector |-> MaxLen(Opt("str"), 100),
     current_price |-> Places(Opt("Decimal"), 4),
     previous_close |-> Places(Opt("Decimal"), 4),
     is_active |-> Opt("bool")]

\* Variant: the type as free text.
TransactionCreateKindText == Fld("str")

TransactionCreateKind == Fld("TransactionType")

TransactionCreate ==
    [stock_id |-> Fld("int"),
     transaction_type |-> TransactionCreateKind,
     quantity |-> Places(Fld("Decimal"), 6),
     price |-> Places(Fld("Decimal"), 4),
     fees |-> Places(Dflt("Decimal", Zero), 2),
     notes |-> MaxLen(Opt("str"), 500),
     transaction_date |-> Opt("datetime")]

PriceAlertCreate ==
    [stock_id |-> Fld("int"),
     alert_type |-> Fld("AlertType"),
     target_price |-> Places(Fld("Decimal"), 4),
     message |-> MaxLen(Opt("str"), 200)]

PriceAlertUpdate ==
    [alert_type |-> Opt("AlertType"),
     target_price |-> Places(Opt("Decimal"), 4),
     status |-> Opt("AlertStatus"),
     message |-> MaxLen(Opt("str"), 200)]

StockPriceUpdate ==
    [price |-> Places(Fld("Decimal"), 4),
     volume |-> Dflt("int", 0),
     open_price |-> Places(Opt("Decimal"), 4),
     high_price |-> Places(Opt("Decimal"), 4),
     low_price |-> Places(Opt("Decimal"), 4),
     close_price |-> Places(Opt("Decimal"), 4)]

(* ----------------------------- validation ------------------------------ *)

Lower ==
    {"a", "b", "c", "d", "e", "f", "g", "h", "i", "j", "k", "l", "m",
     "n", "o", "p", "q", "r", "s", "t", "u", "v", "w", "x", "y", "z"}

Upper ==
    {"A", "B", "C", "D", "E", "F", "G", "H", "I", "J", "K", "L", "M",
     "N", "O", "P", "Q", "R", "S", "T", "U", "V", "W", "X", "Y", "Z"}

Digit == {"0", "1", "2", "3", "4", "5", "6", "7", "8", "9"}

\* [a-zA-Z0-9_.+-]
LocalChar == Lower \cup Upper \cup Digit \cup {"_", ".", "+", "-"}

\* [a-zA-Z0-9-]
DomainChar == Lower \cup Upper \cup Digit \cup {"-"}

\* [a-zA-Z0-9-.]
TailChar == Lower \cup Upper \cup Digit \cup {"-", "."}

\* ^[a-zA-Z0-9_.+-]+@[a-zA-Z0-9-]+\.[a-zA-Z0-9-.]+$ : the "@" at i, the
\* dot that ends the first domain label at j.
MatchesEmail(s) ==
    \E i \in 2 .. Len(s) :
        /\ s[i] = "@"
        /\ \A k \in 1 .. i - 1 : s[k] \in LocalChar
        /\ \E j \in i + 2 .. Len(s) - 1 :
              /\ s[j] = "."
              /\ \A k \in i + 1 .. j - 1 : s[k] \in DomainChar
              /\ \A k \in j + 1 .. Len(s) : s[k] \in TailChar

Matches(r, s) == r = EmailRegex /\ MatchesEmail(s)

\* The constraints one field declares, on one value.
ValidValue(fd, v) ==
    /\ IsEnumType(fd.type) => v \in EnumMembers(fd.type)
    /\ \A n \in fd.max_length : Len(v) <= n
    /\ \A p \in fd.decimal_places : v.exp <= p
    /\ \A r \in fd.regex : Matches(r, v)

\* Validation of data against a class: required fields are there and every
\* field given meets its constraints.
Validate(model, data) ==
    /\ \A f \in DOMAIN model : model[f].required => f \in DOMAIN data
    /\ \A f \in DOMAIN data \cap DOMAIN model : ValidValue(model[f], data[f])

(* ------------------------------ the tables ----------------------------- *)

TableNames ==
    {"users", "stocks", "portfolio_holdings", "transactions", "price_alerts",
     "stock_price_history", "portfolio_summaries"}

ModelOf(t) ==
    CASE t = "users" -> User
      [] t = "stocks" -> Stock
      [] t = "portfolio_holdings" -> PortfolioHolding
      [] t = "transactions" -> Transaction
      [] t = "price_alerts" -> PriceAlert
      [] t = "stock_price_history" -> StockPriceHistory
      [] t = "portfolio_summaries" -> PortfolioSummary

\* The columns a row carries.
Columns(model) == {f \in DOMAIN model : model[f].type # "datetime"}

\* NUMERIC(scale = p): the value is held with exactly p fractional digits,
\* rounded half up when it has more.
Quantize(d, p) ==
    IF d.exp <= p
    THEN Dec(d.coef * Pow10(p - d.exp), p)
    ELSE Dec((d.coef + Pow10(d.exp - p) \div 2) \div Pow10(d.exp - p), p)

\* The value a column holds for a value written to it.
Coerce(fd, v) ==
    IF fd.decimal_places = {} THEN v
    ELSE Quantize(v, CHOOSE p \in fd.decimal_places : TRUE)

\* The row of a table class built from data: the id, the fields given and
\* the defaults of the others.
ToRow(model, data, id) ==
    [f \in {"id"} \cup {g \in Columns(model) :
                           g \in DOMAIN data \/ model[g].default # {}} |->
        IF f = "id" THEN id
        ELSE IF f \in DOMAIN data THEN Coerce(model[f], data[f])
        ELSE Coerce(model[f], CHOOSE d \in model[f].default : TRUE)]

\* What the table layout rejects in `row`, to be stored in table t in the
\* place of row `self` (0 for a new row).
DbErrors(t, row, self) ==
    LET model == ModelOf(t)
        cols == DOMAIN row \ {"id"}
    IN  {e \in {"not_null", "enum", "length", "unique", "foreign_key"} :
            CASE e = "not_null" ->
                    \E f \in Columns(model) \ {"id"} :
                        ~model[f].nullable /\ f \notin DOMAIN row
              [] e = "enum" ->
                    \E f \in cols : /\ IsEnumType(model[f].type)
                                    /\ row[f] \notin EnumMembers(model[f].type)
              [] e = "length" ->
                    \E f \in cols : \E n \in model[f].max_length : Len(row[f]) > n
              [] e = "unique" ->
                    \E f \in cols :
                        /\ model[f].unique
                        /\ \E i \in DOMAIN db[t] \ {self} :
                              f \in DOMAIN db[t][i] /\ db[t][i][f] = row[f]
              [] e = "foreign_key" ->
                    \E f \in cols : \E ref \in model[f].foreign_key :
                        row[f] \notin DOMAIN db[ref]}

TotalRows == Len(db["users"]) + Len(db["stocks"]) + Len(db["portfolio_holdings"])
             + Len(db["transactions"]) + Len(db["price_alerts"])
             + Len(db["stock_price_history"]) + Len(db["portfolio_summaries"])

Room(t) == Len(db[t]) < MaxRows /\ TotalRows < MaxTotal

Merge(a, b) ==
    [f \in DOMAIN a \cup DOMAIN b |-> IF f \in DOMAIN a THEN a[f] ELSE b[f]]

\* The errors of building a row of table t from data and storing it.
StoreErrors(t, data, validated) ==
    IF validated /\ ~Validate(ModelOf(t), data) THEN {"row_validation"}
    ELSE DbErrors(t, ToRow(ModelOf(t), data, Len(db[t]) + 1), 0)

\* What `last` records ("validation": the request shape rejected the data;
\* "row_validation": validation against the table class did; the others: the
\* table layout did): the operation, the table and the row id it is about
\* (0 when no row was stored), the data given, the row as it was before an
\* update (empty otherwise) and the errors.
Outcome(op, t, id, data, before, errs) ==
    [op |-> op, table |-> t, id |-> id, data |-> data, before |-> before,
     errors |-> errs]

\* Build a row of table t from data and store it; req is the data as the
\* caller gave it.
Store(op, t, data, validated, req) ==
    LET errs == StoreErrors(t, data, validated)
        id == Len(db[t]) + 1
    IN  /\ db' = IF errs = {}
                 THEN [db EXCEPT ![t] = Append(@, ToRow(ModelOf(t), data, id))]
                 ELSE db
        /\ last' = Outcome(op, t, IF errs = {} THEN id ELSE 0, req, <<>>, errs)

\* A request the shape rejects.
Reject(op, t, id, req) ==
    /\ db' = db
    /\ last' = Outcome(op, t, id, req, <<>>, {"validation"})

(* ------------------------------ operations ----------------------------- *)

Init ==
    /\ db = [t \in TableNames |-> <<>>]
    /\ last = Outcome("none", "none", 0, <<>>, <<>>, {})

\* A row of a table class is constructed and committed.
Insert(t, data, validated) ==
    /\ Room(t)
    /\ Store("Insert", t, data, validated, data)

\* UserCreate -> User.
CreateUser(req, validated) ==
    /\ Room("users")
    /\ IF Validate(UserCreate, req)
       THEN Store("CreateUser", "users", req, validated, req)
       ELSE Reject("CreateUser", "users", 0, req)

\* StockCreate -> Stock; `extra` holds the required columns the shape does
\* not carry (previous_close, day_change, day_change_percent).
CreateStock(req, extra, validated) ==
    /\ Room("stocks")
    /\ IF Validate(StockCreate, req)
       THEN Store("CreateStock", "stocks", Merge(req, extra), validated, req)
       ELSE Reject("CreateStock", "stocks", 0, req)

\* TransactionCreate -> Transaction; `extra` holds user_id and total_amount.
CreateTransaction(req, extra, validated) ==
    /\ Room("transactions")
    /\ IF Validate(TransactionCreate, req)
       THEN Store("CreateTransaction", "transactions", Merge(req, extra), validated, req)
       ELSE Reject("CreateTransaction", "transactions", 0, req)

\* PriceAlertCreate -> PriceAlert; `extra` holds user_id.
CreateAlert(req, extra, validated) ==
    /\ Room("price_alerts")
    /\ IF Validate(PriceAlertCreate, req)
       THEN Store("CreateAlert", "price_alerts", Merge(req, extra), validated, req)
       ELSE Reject("CreateAlert", "price_alerts", 0, req)

\* StockPriceUpdate -> StockPriceHistory, for the stock of id stock_id.
RecordPrice(stock_id, req, validated) ==
    /\ Room("stock_price_history")
    /\ IF Validate(StockPriceUpdate, req)
       THEN Store("RecordPrice", "stock_price_history",
                  Merge(req, [stock_id |-> stock_id]), validated, req)
       ELSE Reject("RecordPrice", "stock_price_history", 0, req)

\* The fields an update shape carries are written to row id of table t.
ApplyUpdate(op, shape, t, id, upd) ==
    /\ id \in DOMAIN db[t]
    /\ IF Validate(shape, upd)
       THEN LET model == ModelOf(t)
                new == Merge([f \in DOMAIN upd \cap Columns(model) |->
                                 Coerce(model[f], upd[f])], db[t][id])
                errs == DbErrors(t, new, id)
            IN  /\ db' = IF errs = {} THEN [db EXCEPT ![t][id] = new] ELSE db
                /\ last' = Outcome(op, t, id, upd, db[t][id], errs)
       ELSE Reject(op, t, id, upd)

\* Variant: an update shape for transactions is declared as well.
UpdateShapesWithTransaction ==
    [UpdateUser |-> [shape |-> UserUpdate, table |-> "users"],
     UpdateStock |-> [shape |-> StockUpdate, table |-> "stocks"],
     UpdateAlert |-> [shape |-> PriceAlertUpdate, table |-> "price_alerts"],
     UpdateTransaction |->
        [shape |-> [fees |-> Places(Opt("Decimal"), 2),
                    notes |-> MaxLen(Opt("str"), 500)],
         table |-> "transactions"]]

\* The update shapes the module declares, each with the table of the entity
\* it is named after: UserUpdate, StockUpdate and PriceAlertUpdate, and none
\* for the other four tables.
UpdateShapes ==
    [UpdateUser |-> [shape |-> UserUpdate, table |-> "users"],
     UpdateStock |-> [shape |-> StockUpdate, table |-> "stocks"],
     UpdateAlert |-> [shape |-> PriceAlertUpdate, table |-> "price_alerts"]]

\* The update shape of operation op applied to row id of its table.
Update(op, id, upd) ==
    ApplyUpdate(op, UpdateShapes[op].shape, UpdateShapes[op].table, id, upd)

(* ------------------------------- inputs -------------------------------- *)

Ids == 1 .. MaxRows

\* The ids rows refer to: with one row stored, 1 is stored and 2 is not.
RefIds == {1, 2}

Name1 == <<"n">>

User1 == <<"a">>

User2 == <<"b">>

Email1 == <<"a", "@", "x", ".", "i", "o">>

Email2 == <<"b", "+", "1", "@", "x", "-", "y", ".", "c", ".", "u">>

Sym1 == <<"A", "A", "P", "L">>

Sym2 == <<"M", "S", "F", "T">>

One == Dec(1, 0)

\* The rows of each table, with every combination of the key columns.
KeyRows(t) ==
    CASE t = "users" ->
            {[username |-> u, email |-> e, full_name |-> Name1] :
                u \in {User1, User2}, e \in {Email1, Email2}}
      [] t = "stocks" ->
            {[symbol |-> s, name |-> Name1, exchange |-> Name1, current_price |-> One,
              previous_close |-> One, day_change |-> Zero, day_change_percent |-> Zero] :
                s \in {Sym1, Sym2}}
      [] t = "portfolio_holdings" ->
            {[user_id |-> u, stock_id |-> s, quantity |-> One, average_cost |-> One,
              total_invested |-> One] : u \in RefIds, s \in RefIds}
      [] t = "transactions" ->
            {[user_id |-> u, stock_id |-> s, transaction_type |-> "BUY", quantity |-> One,
              price |-> One, total_amount |-> One] : u \in RefIds, s \in RefIds}
      [] t = "price_alerts" ->
            {[user_id |-> u, stock_id |-> s, alert_type |-> "ABOVE",
              target_price |-> One] : u \in RefIds, s \in RefIds}
      [] t = "stock_price_history" ->
            {[stock_id |-> s, price |-> One] : s \in RefIds}
      [] t = "portfolio_summaries" ->
            {[user_id |-> u] : u \in RefIds}

KeyUserUpdates ==
    {[username |-> u] : u \in {User1, User2}} \cup {[email |-> e] : e \in {Email1, Email2}}

\* Requests for the shapes: within and beyond the declared lengths, decimal
\* places, enum members and email pattern.
LongName == Rep("u", 51)

LongSymbol == Rep("S", 11)

BadEmail == <<"a", ".", "x", ".", "i", "o">>

ApiUserCreates ==
    {[username |-> User1, email |-> e, full_name |-> Name1] : e \in {Email1, BadEmail}}
    \cup {[username |-> LongName, email |-> Email2, full_name |-> Name1],
          [username |-> User2, email |-> Email2]}

ApiStockCreates ==
    {[symbol |-> Sym1, name |-> Name1, exchange |-> Name1, current_price |-> p] :
        p \in {Dec(15, 1), Dec(100005, 5)}}
    \cup {[symbol |-> LongSymbol, name |-> Name1, exchange |-> Name1,
           current_price |-> One]}

ApiStockExtras ==
    {[previous_close |-> One, day_change |-> Zero, day_change_percent |-> Zero]}

ApiTransactionCreates ==
    {[stock_id |-> 1, transaction_type |-> ty, quantity |-> One, price |-> One] :
        ty \in {"BUY", "SELL", "HOLD"}}
    \cup {[stock_id |-> 1, transaction_type |-> "BUY", quantity |-> Dec(10000005, 7),
           price |-> One]}

ApiTransactionExtras == {[user_id |-> 1, total_amount |-> One]}

ApiAlertCreates ==
    {[stock_id |-> 1, alert_type |-> ty, target_price |-> One] :
        ty \in {"ABOVE", "BESIDE"}}

ApiAlertExtras == {[user_id |-> 1]}

\* Updates of one field each; a shape is given those of the fields it has.
ApiFieldUpdates ==
    {[email |-> BadEmail], [is_active |-> FALSE], [notes |-> Name1],
     [current_price |-> Dec(25, 1)], [current_price |-> Dec(100005, 5)],
     [target_price |-> Dec(2, 0)]}
    \cup {[status |-> st] : st \in {"ACTIVE", "TRIGGERED", "DISABLED", "PAUSED"}}

ApiUpdates(shape) == {upd \in ApiFieldUpdates : DOMAIN upd \subseteq DOMAIN shape}

ApiPriceUpdates == {[price |-> One, volume |-> 7], [price |-> Dec(100005, 5)]}

\* A decimal with k fractional digits, the last one a 5.
DecOf(k) == Dec(Pow10(k) + 5, k)

\* Decimals with as many fractional digits as the columns declare (2, 4, 6),
\* and with more than any does.
DecInputs == {DecOf(k) : k \in {2, 4, 6, MaxPlaces}}

\* The rows of each table, with d in every decimal column.
DecRows(t, d) ==
    CASE t = "users" ->
            [username |-> User1, email |-> Email1, full_name |-> Name1]
      [] t = "stocks" ->
            [symbol |-> Sym1, name |-> Name1, exchange |-> Name1, market_cap |-> d,
             current_price |-> d, previous_close |-> d, day_change |-> d,
             day_change_percent |-> d]
      [] t = "portfolio_holdings" ->
            [user_id |-> 1, stock_id |-> 1, quantity |-> d, average_cost |-> d,
             total_invested |-> d, current_value |-> d, unrealized_gain_loss |-> d,
             unrealized_gain_loss_percent |-> d]
      [] t = "transactions" ->
            [user_id |-> 1, stock_id |-> 1, transaction_type |-> "BUY", quantity |-> d,
             price |-> d, total_amount |-> d, fees |-> d]
      [] t = "price_alerts" ->
            [user_id |-> 1, stock_id |-> 1, alert_type |-> "BELOW", target_price |-> d]
      [] t = "stock_price_history" ->
            [stock_id |-> 1, price |-> d, open_price |-> d, high_price |-> d,
             low_price |-> d, close_price |-> d]
      [] t = "portfolio_summaries" ->
            [user_id |-> 1, total_value |-> d, total_invested |-> d,
             total_gain_loss |-> d, total_gain_loss_percent |-> d, day_change |-> d,
             day_change_percent |-> d]

\* For the shapes: a decimal some of their fields take, and one none takes.
DecRequests == {DecOf(4), DecOf(MaxPlaces)}

DecTransactionCreate(d) ==
    [stock_id |-> 1, transaction_type |-> "SELL", quantity |-> d, price |-> d]

(* --------------------------- specifications ---------------------------- *)

\* Rows of every table with all combinations of keys and references.
NextKeys ==
    \/ \E t \in TableNames, v \in BOOLEAN : \E d \in KeyRows(t) : Insert(t, d, v)
    \/ \E id \in Ids : \E upd \in KeyUserUpdates : Update("UpdateUser", id, upd)

SpecKeys == Init /\ [][NextKeys]_vars

\* The operations the request shapes offer.
NextApi ==
    \/ \E req \in ApiUserCreates, v \in BOOLEAN : CreateUser(req, v)
    \/ \E req \in ApiStockCreates, x \in ApiStockExtras, v \in BOOLEAN :
          CreateStock(req, x, v)
    \/ \E req \in ApiTransactionCreates, x \in ApiTransactionExtras, v \in BOOLEAN :
          CreateTransaction(req, x, v)
    \/ \E req \in ApiAlertCreates, x \in ApiAlertExtras, v \in BOOLEAN :
          CreateAlert(req, x, v)
    \/ \E op \in DOMAIN UpdateShapes, id \in Ids :
          \E upd \in ApiUpdates(UpdateShapes[op].shape) : Update(op, id, upd)
    \/ \E req \in ApiPriceUpdates, v \in BOOLEAN : RecordPrice(1, req, v)

SpecApi == Init /\ [][NextApi]_vars

\* Decimals written to every decimal column, by storing rows and through
\* the shapes.
NextDecimals ==
    \/ \E t \in TableNames, d \in DecInputs, v \in BOOLEAN : Insert(t, DecRows(t, d), v)
    \/ \E d \in DecRequests : Update("UpdateStock", 1, [current_price |-> d])
    \/ \E d \in DecRequests : Update("UpdateAlert", 1, [target_price |-> d])
    \/ \E d \in DecRequests, v \in BOOLEAN :
          CreateTransaction(DecTransactionCreate(d), [user_id |-> 1, total_amount |-> One], v)
    \/ \E d \in DecRequests, v \in BOOLEAN : RecordPrice(1, [price |-> d], v)

SpecDecimals == Init /\ [][NextDecimals]_vars

(* ------------------------------- claims -------------------------------- *)

\* Rows i # j of table t differ in column f.
Distinct(t, f) ==
    \A i, j \in DOMAIN db[t] : i # j => db[t][i][f] # db[t][j][f]

\* The latest operation wrote to column f of table t a value that another
\* stored row of t holds.
Duplicates(t, f) ==
    /\ last.table = t
    /\ f \in DOMAIN last.data
    /\ \E i \in DOMAIN db[t] \ {last.id} : db[t][i][f] = last.data[f]

\* C1: no two stored users share a username or an email and no two stored
\* stocks share a symbol; an insert or update that writes a username, email
\* or symbol another row holds ends with a uniqueness error and stores
\* nothing.
C1_UniqueKeys ==
    /\ Distinct("users", "username")
    /\ Distinct("users", "email")
    /\ Distinct("stocks", "symbol")
    /\ \A f \in {"username", "email"} :
          Duplicates("users", f) => "unique" \in last.errors
    /\ Duplicates("stocks", "symbol") => "unique" \in last.errors

\* Two users are stored and an update of one to the other's email was
\* rejected.
C1_Witness ==
    /\ Len(db["users"]) = 2
    /\ last.op = "UpdateUser"
    /\ Duplicates("users", "email")
    /\ last.errors = {"unique"}
    /\ db["users"][last.id] = last.before

\* C2: no two stored PortfolioSummary rows have the same user_id; storing a
\* second summary for a user ends with a uniqueness error.
C2_OneSummaryPerUser ==
    /\ Distinct("portfolio_summaries", "user_id")
    /\ Duplicates("portfolio_summaries", "user_id") => "unique" \in last.errors

\* A summary is stored and a second one for the same user was rejected.
C2_Witness ==
    /\ Len(db["portfolio_summaries"]) = 1
    /\ last.op = "Insert"
    /\ Duplicates("portfolio_summaries", "user_id")
    /\ last.errors = {"unique"}

\* Column f of every row of table t is the id of a stored row of table ref.
References(t, f, ref) ==
    \A i \in DOMAIN db[t] : db[t][i][f] \in DOMAIN db[ref]

\* The latest operation wrote to column f of table t an id table ref lacks.
Dangles(t, f, ref) ==
    /\ last.table = t
    /\ f \in DOMAIN last.data
    /\ last.data[f] \notin DOMAIN db[ref]

\* C8: every holding, transaction and alert references a stored user and a
\* stored stock, every price bar a stored stock and every summary a stored
\* user; an insert whose user_id or stock_id matches no stored row ends with
\* a foreign-key error.
C8_ReferencesStored ==
    /\ \A t \in {"portfolio_holdings", "transactions", "price_alerts"} :
          /\ References(t, "user_id", "users")
          /\ References(t, "stock_id", "stocks")
          /\ Dangles(t, "user_id", "users") => "foreign_key" \in last.errors
          /\ Dangles(t, "stock_id", "stocks") => "foreign_key" \in last.errors
    /\ References("stock_price_history", "stock_id", "stocks")
    /\ Dangles("stock_price_history", "stock_id", "stocks")
          => "foreign_key" \in last.errors
    /\ References("portfolio_summaries", "user_id", "users")
    /\ Dangles("portfolio_summaries", "user_id", "users")
          => "foreign_key" \in last.errors

\* With user 1 and stock 1 stored, a holding of stock 1 for user 2 was
\* rejected.
C8_Witness ==
    /\ Len(db["users"]) = 1 /\ Len(db["stocks"]) = 1
    /\ db["portfolio_holdings"] = <<>>
    /\ last.op = "Insert"
    /\ Dangles("portfolio_holdings", "user_id", "users")
    /\ ~Dangles("portfolio_holdings", "stock_id", "stocks")
    /\ last.errors = {"foreign_key"}

Alerts == db["price_alerts"]

Transactions == db["transactions"]

\* C3, as claimed: an alert starts ACTIVE and its status only moves from
\* ACTIVE to TRIGGERED or from ACTIVE to DISABLED.
C3_OneDirectional ==
    [][/\ \A i \in DOMAIN Alerts' \ DOMAIN Alerts : Alerts'[i].status = "ACTIVE"
       /\ \A i \in DOMAIN Alerts :
             Alerts'[i].status # Alerts[i].status =>
                /\ Alerts[i].status = "ACTIVE"
                /\ Alerts'[i].status \in {"TRIGGERED", "DISABLED"}]_vars

\* C3, amended: an alert created from a PriceAlertCreate starts ACTIVE; its
\* status changes only when a PriceAlertUpdate that carries a status is
\* applied to it, and an accepted update leaves it with the status the
\* update carries, whatever the status was before.
C3_StatusFollowsUpdate ==
    [][/\ \A i \in DOMAIN Alerts' \ DOMAIN Alerts : Alerts'[i].status = "ACTIVE"
       /\ \A i \in DOMAIN Alerts :
             Alerts'[i].status # Alerts[i].status =>
                /\ last'.op = "UpdateAlert" /\ last'.id = i
                /\ "status" \in DOMAIN last'.data
       /\ (last'.op = "UpdateAlert" /\ last'.errors = {}
             /\ "status" \in DOMAIN last'.data) =>
                Alerts'[last'.id].status = last'.data.status]_vars

\* A TRIGGERED alert was set back to ACTIVE by an update.
C3_Witness ==
    /\ last.op = "UpdateAlert"
    /\ last.errors = {}
    /\ last.before.status = "TRIGGERED"
    /\ Alerts[last.id].status = "ACTIVE"

\* C4: the status of every stored alert is ACTIVE, TRIGGERED or DISABLED; a
\* PriceAlertUpdate with another status is rejected.
C4_StatusInEnum ==
    /\ \A i \in DOMAIN Alerts : Alerts[i].status \in {"ACTIVE", "TRIGGERED", "DISABLED"}
    /\ (/\ last.op = "UpdateAlert"
        /\ "status" \in DOMAIN last.data
        /\ last.data.status \notin {"ACTIVE", "TRIGGERED", "DISABLED"})
          => "validation" \in last.errors

\* An update with the status PAUSED was rejected and the alert is as before.
C4_Witness ==
    /\ last.op = "UpdateAlert"
    /\ last.data = [status |-> "PAUSED"]
    /\ last.errors = {"validation"}
    /\ Alerts[last.id].status = "DISABLED"

\* C5: the transaction_type of every stored transaction, and of every
\* request the TransactionCreate shape accepts, is BUY or SELL.
C5_TypeInEnum ==
    /\ \A i \in DOMAIN Transactions :
          Transactions[i].transaction_type \in {"BUY", "SELL"}
    /\ (last.op = "CreateTransaction" /\ "validation" \notin last.errors)
          => last.data.transaction_type \in {"BUY", "SELL"}

\* With its user and its stock stored, a request of type HOLD was rejected.
C5_Witness ==
    /\ Len(db["users"]) = 1 /\ Len(db["stocks"]) = 1
    /\ Transactions = <<>>
    /\ last.op = "CreateTransaction"
    /\ last.data.transaction_type = "HOLD"
    /\ last.errors = {"validation"}

C7_EmailChecked ==
    /\ \A i \in DOMAIN db["users"] : MatchesEmail(db["users"][i].email)
    /\ (/\ last.table = "users"
        /\ "email" \in DOMAIN last.data
        /\ ~MatchesEmail(last.data.email))
          => last.errors \cap {"validation", "row_validation"} # {}

\* The create operations, each with its shape and its table class.
CreateOps ==
    [CreateUser |-> [shape |-> UserCreate, model |-> User],
     CreateStock |-> [shape |-> StockCreate, model |-> Stock],
     CreateTransaction |-> [shape |-> TransactionCreate, model |-> Transaction],
     CreateAlert |-> [shape |-> PriceAlertCreate, model |-> PriceAlert]]

\* The id and the timestamps of a class.
Internal(model) ==
    {f \in DOMAIN model : model[f].primary_key \/ model[f].type = "datetime"}

\* C10, as claimed: the shape of a create has the fields of its entity other
\* than the id and the timestamps, each with the entity's max length, decimal
\* places and pattern.
C10_Mirrors ==
    \A op \in DOMAIN CreateOps :
        last.op = op =>
            LET shape == CreateOps[op].shape
                model == CreateOps[op].model
            IN  /\ DOMAIN shape = DOMAIN model \ Internal(model)
                /\ \A f \in DOMAIN shape \cap DOMAIN model :
                      /\ shape[f].max_length = model[f].max_length
                      /\ shape[f].decimal_places = model[f].decimal_places
                      /\ shape[f].regex = model[f].regex

\* C10, amended: the fields of the shape of a create are fields of its entity
\* other than the id, each with the entity's max length and decimal places;
\* the values of a request the shape accepts are within the lengths and the
\* decimal places the entity declares.
C10_ShapeWithinEntity ==
    \A op \in DOMAIN CreateOps :
        last.op = op =>
            LET shape == CreateOps[op].shape
                model == CreateOps[op].model
            IN  /\ DOMAIN shape \subseteq DOMAIN model \ {"id"}
                /\ \A f \in DOMAIN shape :
                      /\ shape[f].max_length = model[f].max_length
                      /\ shape[f].decimal_places = model[f].decimal_places
                /\ "validation" \notin last.errors =>
                      \A f \in DOMAIN last.data :
                          /\ \A n \in model[f].max_length : Len(last.data[f]) <= n
                          /\ \A p \in model[f].decimal_places : last.data[f].exp <= p

\* A user request with a username of 51 characters was rejected, after one
\* within the limits was stored.
C10_Witness ==
    /\ Len(db["users"]) = 1
    /\ last.op = "CreateUser"
    /\ last.data.username = LongName
    /\ last.errors = {"validation"}

\* The number of fractional digits of a Decimal, trailing zeros apart.
Digits(d) == Normalize(d).exp

\* The fractional digits the claim gives each decimal column: 6 for share
\* quantities, 4 for prices and percentages, 2 for amounts, fees and totals.
ClaimedPlaces ==
    [stocks |->
        [market_cap |-> 2, current_price |-> 4, previous_close |-> 4,
         day_change |-> 4, day_change_percent |-> 4],
     portfolio_holdings |->
        [quantity |-> 6, average_cost |-> 4, total_invested |-> 2,
         current_value |-> 2, unrealized_gain_loss |-> 2,
         unrealized_gain_loss_percent |-> 4],
     transactions |->
        [quantity |-> 6, price |-> 4, total_amount |-> 2, fees |-> 2],
     price_alerts |-> [target_price |-> 4],
     stock_price_history |->
        [price |-> 4, open_price |-> 4, high_price |-> 4, low_price |-> 4,
         close_price |-> 4],
     portfolio_summaries |->
        [total_value |-> 2, total_invested |-> 2, total_gain_loss |-> 2,
         total_gain_loss_percent |-> 4, day_change |-> 2, day_change_percent |-> 4]]

====
